---- MODULE Spec2Model ----
(***************************************************************************)
(* Model of the stripe-sandbox server: the three request handlers          *)
(* (payments.js, customers.js) and the webhook handler (webhook.js).       *)
(* One HTTP request is followed from arrival to its response; the          *)
(* external processor (the stripe client) answers nondeterministically.    *)
(***************************************************************************)
EXTENDS Integers, Sequences, FiniteSets, TLC

VARIABLES
    handler,   \* route the current request was dispatched to ("none" when idle)
    pc,        \* position of the handler
    req,       \* the request (body / params / headers) as received
    res,       \* the HTTP response object: [sent, status, body]
    logs,      \* console lines written during this request, in order
    calls,     \* calls made to the external processor during this request
    event,     \* webhook.js `event` (result of constructEvent)
    branches,  \* webhook.js switch branches entered during this request
    exc,       \* webhook.js exception thrown inside the dispatch try block
    prev       \* history: the earlier deliveries of the request now being handled

vars == <<handler, pc, req, res, logs, calls, event, branches, exc, prev>>

webhookVars == <<event, branches, exc, prev>>

---------------------------------------------------------------------------
(* Bounds of the model *)

\* longest request string (amount strings, path ids) drawn as an input
MaxStrLen == 3

\* most times the processor delivers one and the same webhook request again
MaxRedeliveries == 2

\* clock of the server while it handles a request (seconds since the epoch,
\* within the first day)
Now == 1000

---------------------------------------------------------------------------
(* JavaScript values, as far as the handlers look at them.                 *)
(* A number is the rational num/den (den a power of ten); a string is a    *)
(* sequence of one-character strings (or of longer pieces the handlers     *)
(* never look into); an object is the sequence f of its <<key, value>>     *)
(* pairs in insertion order.                                               *)

JsVal(kind, b, num, den, s, f) ==
    [k |-> kind, b |-> b, num |-> num, den |-> den, s |-> s, f |-> f]

Undefined == JsVal("undefined", FALSE, 0, 1, <<>>, <<>>)
Null      == JsVal("null", FALSE, 0, 1, <<>>, <<>>)
NaNVal    == JsVal("NaN", FALSE, 0, 1, <<>>, <<>>)
Bool(b)   == JsVal("boolean", b, 0, 1, <<>>, <<>>)
Num(n, d) == JsVal("number", FALSE, n, d, <<>>, <<>>)
Str(s)    == JsVal("string", FALSE, 0, 1, s, <<>>)
Obj(f)    == JsVal("object", FALSE, 0, 1, <<>>, f)
EmptyObj  == Obj(<<>>)
EmptyArr  == JsVal("array", FALSE, 0, 1, <<>>, <<>>)

\* A number that is not the decimal num/den itself but the double that IEEE
\* 754 arithmetic rounds it to (the integers of the model are too narrow to
\* compute its digits)
Rounded(n, d) == JsVal("rounded", FALSE, n, d, <<>>, <<>>)

RECURSIVE Pow10(_)
Pow10(n) == IF n = 0 THEN 1 ELSE 10 * Pow10(n - 1)

Digits == {"0", "1", "2", "3", "4", "5", "6", "7", "8", "9"}

DigitVal(c) ==
    CASE c = "0" -> 0 [] c = "1" -> 1 [] c = "2" -> 2 [] c = "3" -> 3
      [] c = "4" -> 4 [] c = "5" -> 5 [] c = "6" -> 6 [] c = "7" -> 7
      [] c = "8" -> 8 [] OTHER -> 9

RECURSIVE DigitsVal(_)
DigitsVal(s) ==
    IF s = <<>> THEN 0
    ELSE 10 * DigitsVal(SubSeq(s, 1, Len(s) - 1)) + DigitVal(s[Len(s)])

AllDigits(s) == \A i \in 1..Len(s) : s[i] \in Digits

\* Index of the first "." of s, or Len(s)+1
DotPos(s) ==
    IF \E i \in 1..Len(s) : s[i] = "."
    THEN CHOOSE i \in 1..Len(s) : s[i] = "." /\ \A j \in 1..(i - 1) : s[j] # "."
    ELSE Len(s) + 1

\* ECMAScript StringToNumber on sign / digits / decimal point strings:
\* "" is 0; [+-]? (digits [. digits*] | . digits) is its value; the rest NaN.
StringToNumber(s) ==
    IF s = <<>> THEN Num(0, 1)
    ELSE LET signed == Head(s) \in {"-", "+"}
             sgn    == IF Head(s) = "-" THEN -1 ELSE 1
             body   == IF signed THEN Tail(s) ELSE s
             dot    == DotPos(body)
             int    == SubSeq(body, 1, dot - 1)
             frac   == SubSeq(body, dot + 1, Len(body))
         IN  IF AllDigits(int) /\ AllDigits(frac) /\ Len(int) + Len(frac) >= 1
             THEN Num(sgn * DigitsVal(int \o frac), Pow10(Len(frac)))
             ELSE NaNVal

\* ECMAScript ToNumber (objects go through ToPrimitive: {} is
\* "[object Object]", [] is "")
ToNumber(v) ==
    CASE v.k = "undefined" -> NaNVal
      [] v.k = "null"      -> Num(0, 1)
      [] v.k = "boolean"   -> IF v.b THEN Num(1, 1) ELSE Num(0, 1)
      [] v.k = "number"    -> v
      [] v.k = "string"    -> StringToNumber(v.s)
      [] v.k = "array"     -> StringToNumber(<<>>)
      [] OTHER             -> NaNVal

\* ECMAScript ToBoolean
Truthy(v) ==
    CASE v.k = "undefined" -> FALSE
      [] v.k = "null"      -> FALSE
      [] v.k = "NaN"       -> FALSE
      [] v.k = "boolean"   -> v.b
      [] v.k = "number"    -> v.num # 0
      [] v.k = "string"    -> v.s # <<>>
      [] OTHER             -> TRUE

\* v <= 0 : false when ToNumber(v) is NaN
LeqZero(v) == LET n == ToNumber(v) IN n.k = "number" /\ n.num <= 0

\* num/den (den a power of ten) has a finite binary expansion, so the double
\* holding it is exact
RECURSIVE IsDyadic(_, _)
IsDyadic(num, den) ==
    den = 1 \/ (num % 5 = 0 /\ IsDyadic(num \div 5, den \div 10))

\* v / 100 in double arithmetic.  The division is correctly rounded, so when
\* the dividend is held exactly the quotient prints as the decimal num/(den*100);
\* a dividend that was itself rounded (".55") gives a quotient rounded twice,
\* which need not print as that decimal (0.0055000000000000005)
Div100(v) == LET n == ToNumber(v) IN
    CASE n.k # "number"         -> NaNVal
      [] IsDyadic(n.num, n.den) -> Num(n.num, n.den * 100)
      [] OTHER                  -> Rounded(n.num, n.den * 100)

UpperChar(c) ==
    CASE c = "g" -> "G" [] c = "b" -> "B" [] c = "p" -> "P" [] c = "u" -> "U"
      [] c = "s" -> "S" [] c = "d" -> "D" [] c = "i" -> "I" [] c = "x" -> "X"
      [] OTHER -> c

\* String.prototype.toUpperCase
ToUpperCase(s) == [i \in 1..Len(s) |-> UpperChar(s[i])]

\* String.prototype.startsWith
StartsWith(s, prefix) ==
    /\ Len(s) >= Len(prefix)
    /\ SubSeq(s, 1, Len(prefix)) = prefix

DigitChar(d) ==
    CASE d = 0 -> "0" [] d = 1 -> "1" [] d = 2 -> "2" [] d = 3 -> "3"
      [] d = 4 -> "4" [] d = 5 -> "5" [] d = 6 -> "6" [] d = 7 -> "7"
      [] d = 8 -> "8" [] OTHER -> "9"

TwoDigits(n) == <<DigitChar(n \div 10), DigitChar(n % 10)>>

\* new Date().toISOString() at clock t, a whole second of 1 January 1970
ToISOString(t) ==
    Str(<<"1970-01-01T">> \o TwoDigits(t \div 3600) \o <<":">>
        \o TwoDigits((t % 3600) \div 60) \o <<":">> \o TwoDigits(t % 60)
        \o <<".000Z">>)

\* { ...o, key: value } : own properties of o in their order, then key; a key
\* o already has keeps its place and takes the new value.  Spreading
\* undefined or null adds nothing.
SpreadWith(o, key, value) ==
    LET own == IF o.k = "object" THEN o.f ELSE <<>>
    IN  IF \E i \in 1..Len(own) : own[i][1] = key
        THEN Obj([i \in 1..Len(own) |->
                      IF own[i][1] = key THEN <<key, value>> ELSE own[i]])
        ELSE Obj(Append(own, <<key, value>>))

\* JSON.stringify of an object whose values are strings
RECURSIVE JsonMembers(_)
JsonMembers(f) ==
    IF f = <<>> THEN <<>>
    ELSE LET member == <<"\"", f[1][1], "\":\"">> \o f[1][2].s \o <<"\"">>
         IN  IF Len(f) = 1 THEN member
             ELSE member \o <<",">> \o JsonMembers(Tail(f))

JsonStringify(o) == Str(<<"{">> \o JsonMembers(o.f) \o <<"}">>)

\* All strings over alphabet of length at most n
RECURSIVE StringsUpTo(_, _)
StringsUpTo(alphabet, n) ==
    IF n = 0 THEN {<<>>}
    ELSE LET shorter == StringsUpTo(alphabet, n - 1)
         IN  shorter \cup {Append(s, c) : s \in shorter, c \in alphabet}

---------------------------------------------------------------------------
(* HTTP response and console *)

NoBody == [kind |-> "none"]
Fresh  == [sent |-> 0, status |-> 200, body |-> NoBody]

\* res.status(code).json(body) / res.json(body): Express answers 200 unless
\* status() was called
Respond(r, code, body) == [sent |-> r.sent + 1, status |-> code, body |-> body]

LogLine(level, msg, args) == [level |-> level, msg |-> msg, args |-> args]

---------------------------------------------------------------------------
(* The external processor (stripe client), seen from the handlers: each    *)
(* awaited call either resolves with an object or rejects with an error.   *)

S(x) == Str(<<x>>)    \* an opaque string the handlers never look into

\* confirmation tokens the processor may hand out
ClientSecrets == {S("pi_1_secret_A"), S("pi_1_secret_B")}

StripeErrors ==
    { [message |-> S("Your card was declined."), type |-> S("StripeCardError")],
      [message |-> S("Invalid request"), type |-> S("StripeInvalidRequestError")] }

\* what a JavaScript TypeError looks like to a catch block: it has no .type
TypeError(what) == [message |-> S(what), type |-> Undefined]

\* a RangeError likewise
RangeError(what) == [message |-> S(what), type |-> Undefined]

NoError == [message |-> Undefined, type |-> Undefined]

\* `created` of the objects the processor resolves with: seconds since the
\* epoch, or missing
CreatedValues == {Undefined, Num(Now, 1)}

\* new Date(created * 1000) is an Invalid Date when created * 1000 is NaN
InvalidDate(created) == ToNumber(created).k # "number"

\* new Date(created * 1000).toISOString() for a valid date of whole seconds
CreatedToISOString(created) ==
    LET n == ToNumber(created) IN ToISOString(n.num \div n.den)

---------------------------------------------------------------------------
(* payments.js: createPaymentIntent *)

AmountStrings == StringsUpTo({"-", "0", "5", ".", "a"}, MaxStrLen)

AmountValues ==
    {Undefined, Null, Bool(TRUE), Bool(FALSE), EmptyObj, EmptyArr,
     Num(-1, 1), Num(0, 1), Num(1, 1), Num(5000, 1),
     Num(-5, 10), Num(5, 10), Num(125, 10)}
    \cup {Str(s) : s \in AmountStrings}

CurrencyValues == {Undefined, Null, Num(5, 1), Str(<<"g", "b", "p">>), Str(<<"u", "s", "d">>)}

\* metadata of the request: none, {}, { order_id }, { timestamp }
PaymentMetadataValues ==
    {Undefined, EmptyObj, Obj(<<<<"order_id", S("ORD-001")>>>>),
     Obj(<<<<"timestamp", S("client")>>>>)}

PaymentIntentBodies ==
    [amount : AmountValues, currency : CurrencyValues,
     customerId : {Undefined, S("cus_1")}, metadata : PaymentMetadataValues]

\* const { currency = 'gbp', metadata = {} } = req.body : the default applies
\* to undefined only
DefaultTo(v, dflt) == IF v.k = "undefined" THEN dflt ELSE v

\* Mutant of AmountRejected: the comparison written as `amount < 0`
AmountRejectedStrict(amount) ==
    LET n == ToNumber(amount) IN n.k = "number" /\ n.num < 0

\* if (!amount || amount <= 0)
AmountRejected(amount) == ~Truthy(amount) \/ LeqZero(amount)

AmountErrorBody ==
    [kind |-> "error", error |-> S("Amount must be a positive integer (in pence/cents)"),
     type |-> Undefined]

\* paymentIntentParams as passed to stripe.paymentIntents.create
PaymentIntentParams(body) ==
    [api      |-> "paymentIntents.create",
     amount   |-> body.amount,
     currency |-> DefaultTo(body.currency, Str(<<"g", "b", "p">>)),
     automatic_payment_methods |-> Obj(<<<<"enabled", Bool(TRUE)>>>>),
     metadata |-> SpreadWith(DefaultTo(body.metadata, EmptyObj), "timestamp",
                             ToISOString(Now)),
     customer |-> IF Truthy(body.customerId) THEN body.customerId ELSE Undefined]

\* objects stripe.paymentIntents.create may resolve with
CreatedPaymentIntents(params) ==
    { [id |-> S("pi_1"), client_secret |-> cs, amount |-> params.amount,
       currency |-> params.currency, status |-> S("requires_payment_method")]
      : cs \in ClientSecrets }

\* Mutant of PaymentIntentCreatedLog: the token is written to the console
PaymentIntentCreatedLogLeaky(paymentIntent, amount, currency) ==
    LogLine("log", "PaymentIntent created",
            <<paymentIntent.id, paymentIntent.client_secret, Div100(amount),
              Str(ToUpperCase(currency.s)), paymentIntent.status>>)

\* console.log(`PaymentIntent created: ${id} | ${amount / 100} ${currency.toUpperCase()} | status: ${status}`)
PaymentIntentCreatedLog(paymentIntent, amount, currency) ==
    LogLine("log", "PaymentIntent created",
            <<paymentIntent.id, Div100(amount), Str(ToUpperCase(currency.s)),
              paymentIntent.status>>)

PaymentIntentBody(paymentIntent) ==
    [kind            |-> "paymentIntent",
     paymentIntentId |-> paymentIntent.id,
     clientSecret    |-> paymentIntent.client_secret,
     amount          |-> paymentIntent.amount,
     currency        |-> paymentIntent.currency,
     status          |-> paymentIntent.status]

\* Mutant of ProcessorErrorLog: the catch block answers without logging
ProcessorErrorLogSilent(what, error) == <<>>

\* console.error('... failed:', error.message)
ProcessorErrorLog(what, error) == <<LogLine("error", what, <<error.message>>)>>

\* { error: error.message, type: error.type }
ProcessorErrorBody(error) ==
    [kind |-> "error", error |-> error.message, type |-> error.type]

\* message of the TypeError currency.toUpperCase() throws for a currency
\* that is not a string: null has no properties to read, any other value
\* has no such method
ToUpperCaseFailure(currency) ==
    IF currency.k = "null"
    THEN "Cannot read properties of null (reading 'toUpperCase')"
    ELSE "currency.toUpperCase is not a function"

\* Lines 252-278: destructure, validate, build the params and start the call
ReceiveCreatePaymentIntent ==
    /\ pc = "idle"
    /\ \E body \in PaymentIntentBodies :
        /\ handler' = "createPaymentIntent"
        /\ req' = body
        /\ IF AmountRejected(body.amount)
           THEN /\ res' = Respond(Fresh, 400, AmountErrorBody)
                /\ calls' = <<>>
                /\ pc' = "done"
           ELSE /\ res' = Fresh
                /\ calls' = <<PaymentIntentParams(body)>>
                /\ pc' = "awaiting"
    /\ logs' = <<>>
    /\ UNCHANGED webhookVars

\* Lines 278-290: the call resolved; the template literal of line 280 throws a
\* TypeError into the catch block when currency is not a string
CreatePaymentIntentResolved ==
    /\ handler = "createPaymentIntent" /\ pc = "awaiting"
    /\ \E paymentIntent \in CreatedPaymentIntents(calls[1]) :
        LET currency == calls[1].currency
            error    == TypeError(ToUpperCaseFailure(currency))
        IN  IF currency.k = "string"
            THEN /\ logs' = Append(logs, PaymentIntentCreatedLog(paymentIntent, req.amount, currency))
                 /\ res' = Respond(res, 200, PaymentIntentBody(paymentIntent))
            ELSE /\ logs' = logs \o ProcessorErrorLog("PaymentIntent creation failed", error)
                 /\ res' = Respond(res, 400, ProcessorErrorBody(error))
    /\ pc' = "done"
    /\ UNCHANGED <<handler, req, calls, webhookVars>>

\* Lines 292-295: the call rejected
CreatePaymentIntentRejected ==
    /\ handler = "createPaymentIntent" /\ pc = "awaiting"
    /\ \E error \in StripeErrors :
        /\ logs' = logs \o ProcessorErrorLog("PaymentIntent creation failed", error)
        /\ res' = Respond(res, 400, ProcessorErrorBody(error))
    /\ pc' = "done"
    /\ UNCHANGED <<handler, req, calls, webhookVars>>

---------------------------------------------------------------------------
(* customers.js: createCustomer *)

EmailValues ==
    {Undefined, Null, Str(<<>>), Str(<<"a", "@", "b">>), Num(0, 1), Num(42, 1),
     Bool(TRUE), Bool(FALSE), EmptyObj, EmptyArr}

\* metadata of the request: none, {}, { internal_user_id }
CustomerMetadataValues ==
    {Undefined, EmptyObj, Obj(<<<<"internal_user_id", S("USR-123")>>>>)}

CustomerBodies ==
    [email : EmailValues, name : {Undefined, S("Test User")},
     phone : {Undefined, S("+44")}, metadata : CustomerMetadataValues]

\* if (!email)
EmailRejected(email) == ~Truthy(email)

EmailErrorBody ==
    [kind |-> "error", error |-> S("Email is required to create a Customer"),
     type |-> Undefined]

\* the object passed to stripe.customers.create
CustomerParams(body) ==
    [api      |-> "customers.create",
     email    |-> body.email,
     name     |-> body.name,
     phone    |-> body.phone,
     metadata |-> SpreadWith(DefaultTo(body.metadata, EmptyObj), "created_at",
                             ToISOString(Now))]

\* objects stripe.customers.create may resolve with
CreatedCustomers(params) ==
    { [id |-> S("cus_1"), email |-> params.email, name |-> params.name,
       created |-> c] : c \in CreatedValues }

CustomerCreatedLog(customer, email) ==
    LogLine("log", "Customer created", <<customer.id, email>>)

\* The object of lines 45-52, for a customer whose created is a valid time
CustomerBody(customer) ==
    [kind         |-> "customer",
     customerId   |-> customer.id,
     email        |-> customer.email,
     name         |-> customer.name,
     created      |-> CreatedToISOString(customer.created),
     dashboardUrl |-> Str(<<"https://dashboard.stripe.com/test/customers/">>
                          \o customer.id.s)]

\* Lines 23-41: destructure, validate, start the call
ReceiveCreateCustomer ==
    /\ pc = "idle"
    /\ \E body \in CustomerBodies :
        /\ handler' = "createCustomer"
        /\ req' = body
        /\ IF EmailRejected(body.email)
           THEN /\ res' = Respond(Fresh, 400, EmailErrorBody)
                /\ calls' = <<>>
                /\ pc' = "done"
           ELSE /\ res' = Fresh
                /\ calls' = <<CustomerParams(body)>>
                /\ pc' = "awaiting"
    /\ logs' = <<>>
    /\ UNCHANGED webhookVars

\* Lines 43-57: the call resolved and is logged; toISOString of line 49
\* throws a RangeError into the catch block when the date is invalid
CreateCustomerResolved ==
    /\ handler = "createCustomer" /\ pc = "awaiting"
    /\ \E customer \in CreatedCustomers(calls[1]) :
        LET created == Append(logs, CustomerCreatedLog(customer, req.email))
            error   == RangeError("Invalid time value")
        IN  IF InvalidDate(customer.created)
            THEN /\ logs' = created \o ProcessorErrorLog("Customer creation failed", error)
                 /\ res' = Respond(res, 400, ProcessorErrorBody(error))
            ELSE /\ logs' = created
                 /\ res' = Respond(res, 200, CustomerBody(customer))
    /\ pc' = "done"
    /\ UNCHANGED <<handler, req, calls, webhookVars>>

\* Lines 54-57
CreateCustomerRejected ==
    /\ handler = "createCustomer" /\ pc = "awaiting"
    /\ \E error \in StripeErrors :
        /\ logs' = logs \o ProcessorErrorLog("Customer creation failed", error)
        /\ res' = Respond(res, 400, ProcessorErrorBody(error))
    /\ pc' = "done"
    /\ UNCHANGED <<handler, req, calls, webhookVars>>

---------------------------------------------------------------------------
(* payments.js: getPaymentStatus *)

\* req.params.id is the path segment matched by /payment-status/:id, a
\* non-empty string; path ids are one character longer than the prefix allows
\* for, so that ids with and without the prefix are both drawn
IdStrings == StringsUpTo({"p", "i", "_", "x"}, MaxStrLen + 2) \ {<<>>}

PiPrefix == <<"p", "i", "_">>

\* Mutant of IdRejected: only the first character is compared
IdRejectedFirstChar(id) == ~Truthy(id) \/ ~StartsWith(id.s, <<"p">>)

\* if (!id || !id.startsWith('pi_'))
IdRejected(id) == ~Truthy(id) \/ ~StartsWith(id.s, PiPrefix)

InvalidIdMessage == <<"Invalid PaymentIntent ID", ". Should start with pi_">>

IdErrorBody == [kind |-> "error", error |-> Str(InvalidIdMessage), type |-> Undefined]

\* last_payment_error of a retrieved PaymentIntent: null, or the error object
LastPaymentErrors ==
    { Null,
      Obj(<< <<"code", S("card_declined")>>,
             <<"message", S("Your card was declined.")>>,
             <<"decline_code", S("generic_decline")>>,
             <<"type", S("card_error")>> >>) }

\* o.key of an object: the value of its property, undefined if it has none
Get(o, key) ==
    IF \E i \in 1..Len(o.f) : o.f[i][1] = key
    THEN o.f[CHOOSE i \in 1..Len(o.f) : o.f[i][1] = key][2]
    ELSE Undefined

\* objects stripe.paymentIntents.retrieve may resolve with
RetrievedPaymentIntents(id) ==
    { [id |-> id, status |-> st, amount |-> Num(5000, 1),
       currency |-> Str(<<"g", "b", "p">>), customer |-> cus, metadata |-> EmptyObj,
       created |-> c, last_payment_error |-> lpe]
      : st \in {S("succeeded"), S("requires_payment_method")},
        cus \in {Null, S("cus_1")}, c \in CreatedValues, lpe \in LastPaymentErrors }

\* lastError: last_payment_error ? {code, message, declineCode} : null
LastError(lpe) ==
    IF Truthy(lpe)
    THEN Obj(<< <<"code", Get(lpe, "code")>>,
                <<"message", Get(lpe, "message")>>,
                <<"declineCode", Get(lpe, "decline_code")>> >>)
    ELSE Null

\* The object of lines 320-336, for a PaymentIntent whose created is a valid
\* time
StatusBody(paymentIntent) ==
    [kind      |-> "status",
     id        |-> paymentIntent.id,
     status    |-> paymentIntent.status,
     amount    |-> paymentIntent.amount,
     currency  |-> paymentIntent.currency,
     customer  |-> paymentIntent.customer,
     metadata  |-> paymentIntent.metadata,
     created   |-> CreatedToISOString(paymentIntent.created),
     lastError |-> LastError(paymentIntent.last_payment_error)]

\* Lines 310-318
ReceiveGetPaymentStatus ==
    /\ pc = "idle"
    /\ \E id \in IdStrings :
        /\ handler' = "getPaymentStatus"
        /\ req' = [id |-> Str(id)]
        /\ IF IdRejected(Str(id))
           THEN /\ res' = Respond(Fresh, 400, IdErrorBody)
                /\ calls' = <<>>
                /\ pc' = "done"
           ELSE /\ res' = Fresh
                /\ calls' = <<[api |-> "paymentIntents.retrieve", id |-> Str(id)]>>
                /\ pc' = "awaiting"
    /\ logs' = <<>>
    /\ UNCHANGED webhookVars

\* Lines 320-341: the call resolved; toISOString of line 327 throws a
\* RangeError into the catch block when the date is invalid
GetPaymentStatusResolved ==
    /\ handler = "getPaymentStatus" /\ pc = "awaiting"
    /\ \E paymentIntent \in RetrievedPaymentIntents(calls[1].id) :
        LET error == RangeError("Invalid time value")
        IN  IF InvalidDate(paymentIntent.created)
            THEN /\ logs' = logs \o ProcessorErrorLog("Retrieve PaymentIntent failed", error)
                 /\ res' = Respond(res, 404, [kind |-> "error", error |-> error.message,
                                              type |-> Undefined])
            ELSE /\ logs' = logs
                 /\ res' = Respond(res, 200, StatusBody(paymentIntent))
    /\ pc' = "done"
    /\ UNCHANGED <<handler, req, calls, webhookVars>>

\* Lines 338-341
GetPaymentStatusRejected ==
    /\ handler = "getPaymentStatus" /\ pc = "awaiting"
    /\ \E error \in StripeErrors :
        /\ logs' = logs \o ProcessorErrorLog("Retrieve PaymentIntent failed", error)
        /\ res' = Respond(res, 404, [kind |-> "error", error |-> error.message, type |-> Undefined])
    /\ pc' = "done"
    /\ UNCHANGED <<handler, req, calls, webhookVars>>

---------------------------------------------------------------------------
(* stripe.webhooks.constructEvent, as webhook.js line 28 relies on it.     *)
(* The signature header carries a timestamp t and a digest; the digest is  *)
(* an HMAC over t and the raw body under the signing secret.  The digest   *)
(* is modelled as an ideal MAC: the triple it was computed from.           *)

\* constructEvent's default tolerance (seconds); webhook.js passes none
Tolerance == 300

Secrets == {"whsec_server", "whsec_other"}

\* process.env.STRIPE_WEBHOOK_SECRET
WebhookSecret == "whsec_server"

HandledTypes ==
    {"payment_intent.succeeded", "payment_intent.payment_failed",
     "payment_intent.requires_action", "customer.created", "charge.dispute.created"}

EventTypes == HandledTypes \cup {"invoice.paid"}

\* Shape of event.data.object in the delivered JSON:
\*   "full"   the object with its optional fields set
\*   "sparse" the object with its optional fields null
\*   "absent" no data.object
Shapes == {"full", "sparse", "absent"}

\* Raw request bodies that are the JSON text of an event
Envelopes ==
    [id : {"evt_1", "evt_2"}, type : EventTypes, shape : Shapes, json : {"envelope"}]

\* Raw bodies that are JSON but no event envelope: the text null, an object
\* whose type is an object that cannot be converted to a string
\* ({"toString":0}), and one whose id is such an object
NonEnvelopes ==
    { [id |-> "",      type |-> "",                 shape |-> "absent", json |-> "null"],
      [id |-> "evt_1", type |-> "",                 shape |-> "absent", json |-> "type_object"],
      [id |-> "",      type |-> "customer.created", shape |-> "absent", json |-> "id_object"] }

\* req.body: the raw bytes of the delivery, here always a JSON text
Payloads == Envelopes \cup NonEnvelopes

Timestamps == {Now - Tolerance - 1, Now - Tolerance, Now}

Hmac(secret, t, payload) == <<secret, t, payload>>

\* the other event id: a body altered in transit
Tampered(payload) ==
    [payload EXCEPT !.id = IF payload.id = "evt_1" THEN "evt_2" ELSE "evt_1"]

\* Values of the stripe-signature header for a delivery of `payload`:
\* none, one without t=, one without v1=, or t=<t>,v1=<digest> where the
\* digest was made by some signer at some time over the body or another one
SignatureHeaders(payload) ==
    { [kind |-> k, t |-> 0, v1 |-> <<>>] : k \in {"missing", "no_timestamp", "no_signature"} }
    \cup
    { [kind |-> "signed", t |-> t, v1 |-> Hmac(s, ts, p)]
      : t \in Timestamps, s \in Secrets, ts \in Timestamps, p \in {payload, Tampered(payload)} }

\* verifyHeader: the message of the error it throws, or "ok"
VerifyHeader(payload, header, secret, now) ==
    CASE header.kind = "missing"      -> "No stripe-signature header value was provided"
      [] header.kind = "no_timestamp" -> "Unable to extract timestamp and signatures from header"
      [] header.kind = "no_signature" -> "No signatures found with expected scheme"
      [] header.v1 # Hmac(secret, header.t, payload) ->
             "No signatures found matching the expected signature for payload"
      [] now - header.t > Tolerance   -> "Timestamp outside the tolerance zone"
      [] OTHER                        -> "ok"

\* JSON.parse(payload): the event object
ParseEvent(payload) ==
    [isNull       |-> payload.json = "null",
     id           |-> payload.id,
     idIsString   |-> payload.json \in {"envelope", "type_object"},
     type         |-> payload.type,
     typeIsString |-> payload.json \in {"envelope", "id_object"},
     shape        |-> payload.shape]

NoEvent ==
    [isNull |-> FALSE, id |-> "", idIsString |-> FALSE, type |-> "",
     typeIsString |-> FALSE, shape |-> ""]

---------------------------------------------------------------------------
(* webhook.js: handleWebhook *)

\* event.data.object as the branches read it
DataObject(shape) ==
    [id       |-> S("obj_1"),
     amount   |-> Num(5000, 1),
     email    |-> S("a@b"),
     reason   |-> S("fraudulent"),
     metadata |-> IF shape = "full" THEN Obj(<<<<"order_id", S("ORD-001")>>>>)
                  ELSE EmptyObj,
     customer |-> IF shape = "full" THEN S("cus_1") ELSE Null,
     last_payment_error |->
         [present |-> shape = "full", code |-> S("card_declined"),
          decline_code |-> S("generic_decline"), message |-> S("Your card was declined.")],
     next_action |-> [present |-> shape = "full", type |-> S("use_stripe_sdk")]]

\* o?.field
Opt(o, field) == IF o.present THEN o[field] ELSE Undefined

Info(msg, args) == LogLine("log", msg, args)

\* the property of event.data.object a branch reads first
FirstRead(branch) ==
    CASE branch = "payment_intent.succeeded"      -> "amount"
      [] branch = "payment_intent.payment_failed" -> "last_payment_error"
      [] OTHER                                    -> "id"

\* message of the TypeError a property read of undefined throws
ReadOfUndefined(property) ==
    CASE property = "amount" ->
             "Cannot read properties of undefined (reading 'amount')"
      [] property = "last_payment_error" ->
             "Cannot read properties of undefined (reading 'last_payment_error')"
      [] OTHER ->
             "Cannot read properties of undefined (reading 'id')"

\* What one branch of the switch does for an event whose data.object has the
\* given shape: the lines it logs and whether it throws.  Reading a property
\* of an absent data.object throws a TypeError at the first such read.
BranchRun(branch, type, shape) ==
    LET obj    == DataObject(shape)
        absent == shape = "absent"
        thrown == IF absent THEN TypeError(ReadOfUndefined(FirstRead(branch))) ELSE NoError
    IN  CASE branch = "payment_intent.succeeded" ->
               [logs |-> IF absent THEN <<Info("Payment succeeded", <<>>)>>
                         ELSE <<Info("Payment succeeded", <<>>),
                                Info("Amount", <<Div100(obj.amount)>>),
                                Info("PI ID", <<obj.id>>),
                                Info("Customer", <<IF Truthy(obj.customer) THEN obj.customer
                                                   ELSE S("guest")>>),
                                Info("Metadata", <<JsonStringify(obj.metadata)>>)>>,
                exc |-> thrown]
          [] branch = "payment_intent.payment_failed" ->
               [logs |-> IF absent THEN <<>>
                         ELSE <<Info("Payment failed", <<>>),
                                Info("PI ID", <<obj.id>>),
                                Info("Error code", <<Opt(obj.last_payment_error, "code")>>),
                                Info("Decline code", <<Opt(obj.last_payment_error, "decline_code")>>),
                                Info("Message", <<Opt(obj.last_payment_error, "message")>>)>>,
                exc |-> thrown]
          [] branch = "payment_intent.requires_action" ->
               [logs |-> IF absent THEN <<Info("3DS Authentication required", <<>>)>>
                         ELSE <<Info("3DS Authentication required", <<>>),
                                Info("PI ID", <<obj.id>>),
                                Info("Action", <<Opt(obj.next_action, "type")>>)>>,
                exc |-> thrown]
          [] branch = "customer.created" ->
               [logs |-> IF absent THEN <<>>
                         ELSE <<Info("New customer created", <<obj.id, obj.email>>)>>,
                exc |-> thrown]
          [] branch = "charge.dispute.created" ->
               [logs |-> IF absent THEN <<Info("Dispute opened", <<>>)>>
                         ELSE <<Info("Dispute opened", <<>>),
                                Info("Dispute ID", <<obj.id>>),
                                Info("Amount", <<Div100(obj.amount)>>),
                                Info("Reason", <<obj.reason>>)>>,
                exc |-> thrown]
          [] OTHER ->
               [logs |-> <<Info("Unhandled event type", <<S(type)>>)>>, exc |-> NoError]

\* switch (event.type): the branches entered, in order; every case ends in break
SwitchBranches(type) ==
    IF type \in HandledTypes THEN <<type>> ELSE <<"default">>

\* Run the entered branches in order until one throws
RECURSIVE RunBranches(_, _, _)
RunBranches(bs, type, shape) ==
    IF bs = <<>> THEN [logs |-> <<>>, exc |-> NoError, entered |-> <<>>]
    ELSE LET first == BranchRun(Head(bs), type, shape)
             rest  == RunBranches(Tail(bs), type, shape)
         IN  IF first.exc # NoError
             THEN [logs |-> first.logs, exc |-> first.exc, entered |-> <<Head(bs)>>]
             ELSE [logs |-> first.logs \o rest.logs, exc |-> rest.exc,
                   entered |-> <<Head(bs)>> \o rest.entered]

\* Mutant of VerificationFailed: a failed verification answered as a server
\* error
VerificationFailedAsRetry(r, message) ==
    Respond(r, 500, [kind |-> "error", error |-> Str(<<"Webhook Error: ", message>>),
                     type |-> Undefined])

\* res.status(400).json({ error: `Webhook Error: ${err.message}` })
VerificationFailed(r, message) ==
    Respond(r, 400, [kind |-> "error", error |-> Str(<<"Webhook Error: ", message>>),
                     type |-> Undefined])

\* res.status(500).json({ error: 'Internal error processing webhook' })
DispatchFailed(r) ==
    Respond(r, 500, [kind |-> "error", error |-> S("Internal error processing webhook"),
                     type |-> Undefined])

\* Mutant of AckBody: the acknowledgment names the event by type only
AckBodyNoId(ev) ==
    [kind |-> "ack", received |-> TRUE, eventType |-> ev.type, eventId |-> ""]

\* { received: true, eventType: event.type, eventId: event.id }
AckBody(ev) ==
    [kind |-> "ack", received |-> TRUE, eventType |-> ev.type, eventId |-> ev.id]

\* Lines 18-20: the delivery arrives with its raw body and signature header
ReceiveWebhook ==
    /\ pc = "idle"
    /\ \E payload \in Payloads :
        \E header \in SignatureHeaders(payload) :
            req' = [body |-> payload, sig |-> header]
    /\ handler' = "handleWebhook"
    /\ pc' = "received"
    /\ res' = Fresh
    /\ logs' = <<>>
    /\ calls' = <<>>
    /\ UNCHANGED webhookVars

\* Line 27: enter the verification try block
WebhookBeginVerify ==
    /\ handler = "handleWebhook" /\ pc = "received"
    /\ pc' = "verifying"
    /\ UNCHANGED <<handler, req, res, logs, calls, webhookVars>>

\* Lines 29-33: constructEvent threw
WebhookVerifyFailed ==
    /\ handler = "handleWebhook" /\ pc = "verifying"
    /\ LET verdict == VerifyHeader(req.body, req.sig, WebhookSecret, Now)
       IN  /\ verdict # "ok"
           /\ logs' = Append(logs, LogLine("error", "Webhook signature verification failed",
                                           <<S(verdict)>>))
           /\ res' = VerificationFailed(res, verdict)
    /\ pc' = "rejected"
    /\ UNCHANGED <<handler, req, calls, webhookVars>>

\* Line 35, `${event.type} | ID: ${event.id}`: the message of the TypeError
\* the template literal throws, or "ok".  event.type is read and converted
\* first.
ReceivedLogFailure(ev) ==
    CASE ev.isNull        -> "Cannot read properties of null (reading 'type')"
      [] ~ev.typeIsString -> "Cannot convert object to primitive value"
      [] ~ev.idIsString   -> "Cannot convert object to primitive value"
      [] OTHER            -> "ok"

\* Lines 28 and 35: constructEvent returned the event; it is logged
WebhookVerified ==
    /\ handler = "handleWebhook" /\ pc = "verifying"
    /\ VerifyHeader(req.body, req.sig, WebhookSecret, Now) = "ok"
    /\ LET ev == ParseEvent(req.body)
       IN  /\ ReceivedLogFailure(ev) = "ok"
           /\ event' = ev
           /\ logs' = Append(logs, Info("Webhook received", <<S(ev.type), S(ev.id)>>))
    /\ pc' = "verified"
    /\ UNCHANGED <<handler, req, res, calls, branches, exc, prev>>

\* Lines 28 and 35: constructEvent returned, and the template literal of
\* line 35 threw.  The line stands between the two try blocks, so the
\* exception leaves the handler: nothing is logged, no branch runs and the
\* handler sends no response.
WebhookReceivedLogThrows ==
    /\ handler = "handleWebhook" /\ pc = "verifying"
    /\ VerifyHeader(req.body, req.sig, WebhookSecret, Now) = "ok"
    /\ LET ev == ParseEvent(req.body)
       IN  /\ ReceivedLogFailure(ev) # "ok"
           /\ event' = ev
           /\ exc' = TypeError(ReceivedLogFailure(ev))
    /\ pc' = "uncaught"
    /\ UNCHANGED <<handler, req, res, logs, calls, branches, prev>>

\* Lines 40-97: the switch on event.type
WebhookDispatch ==
    /\ handler = "handleWebhook" /\ pc = "verified"
    /\ LET run == RunBranches(SwitchBranches(event.type), event.type, event.shape)
       IN  /\ branches' = run.entered
           /\ logs' = logs \o run.logs
           /\ exc' = run.exc
    /\ pc' = "dispatching"
    /\ UNCHANGED <<handler, req, res, calls, event, prev>>

\* Line 102: no exception, acknowledge
WebhookAcknowledge ==
    /\ handler = "handleWebhook" /\ pc = "dispatching"
    /\ exc = NoError
    /\ res' = Respond(res, 200, AckBody(event))
    /\ pc' = "acknowledged"
    /\ UNCHANGED <<handler, req, logs, calls, webhookVars>>

\* Lines 104-108: an exception escaped the switch
WebhookDispatchError ==
    /\ handler = "handleWebhook" /\ pc = "dispatching"
    /\ exc # NoError
    /\ logs' = Append(logs, LogLine("error", "Error processing webhook event", <<exc.message>>))
    /\ res' = DispatchFailed(res)
    /\ pc' = "dispatch_error"
    /\ UNCHANGED <<handler, req, calls, webhookVars>>

---------------------------------------------------------------------------
(* The server *)

\* the body of the health check
HealthBody ==
    [kind        |-> "health",
     status      |-> S("running"),
     environment |-> S("Stripe sandbox (test mode)"),
     endpoints   |-> <<S("POST /create-payment-intent"), S("POST /create-customer"),
                       S("GET  /payment-status/:id"), S("POST /webhook")>>]

\* app.get('/', ...): the health check reads nothing of the request, answers
\* 200 with the list of endpoints and returns
HealthCheck ==
    /\ pc = "idle"
    /\ handler' = "healthCheck"
    /\ req' = [none |-> TRUE]
    /\ res' = Respond(Fresh, 200, HealthBody)
    /\ logs' = <<>>
    /\ calls' = <<>>
    /\ pc' = "done"
    /\ UNCHANGED webhookVars

Terminal == {"done", "rejected", "acknowledged", "dispatch_error", "uncaught"}

\* no earlier delivery of the current request
NoPrev == [n |-> 0, res |-> Fresh, raised |-> FALSE]

Init ==
    /\ handler = "none"
    /\ pc = "idle"
    /\ req = [none |-> TRUE]
    /\ res = Fresh
    /\ logs = <<>>
    /\ calls = <<>>
    /\ event = NoEvent
    /\ branches = <<>>
    /\ exc = NoError
    /\ prev = NoPrev

\* The handler returned; nothing is kept for the next request
Finish ==
    /\ pc \in Terminal
    /\ handler' = "none"
    /\ pc' = "idle"
    /\ req' = [none |-> TRUE]
    /\ res' = Fresh
    /\ logs' = <<>>
    /\ calls' = <<>>
    /\ event' = NoEvent
    /\ branches' = <<>>
    /\ exc' = NoError
    /\ prev' = NoPrev

\* The processor delivers the same request (same raw body, same signature
\* header) once more: the handler has returned and is entered again at lines
\* 18-20.  Nothing of the call that ended is kept but the history.
RedeliverWebhook ==
    /\ handler = "handleWebhook"
    /\ pc \in Terminal
    /\ prev.n < MaxRedeliveries
    /\ prev' = [n |-> prev.n + 1, res |-> res, raised |-> exc # NoError]
    /\ pc' = "received"
    /\ res' = Fresh
    /\ logs' = <<>>
    /\ calls' = <<>>
    /\ event' = NoEvent
    /\ branches' = <<>>
    /\ exc' = NoError
    /\ UNCHANGED <<handler, req>>

Next ==
    \/ ReceiveCreatePaymentIntent
    \/ CreatePaymentIntentResolved
    \/ CreatePaymentIntentRejected
    \/ ReceiveCreateCustomer
    \/ CreateCustomerResolved
    \/ CreateCustomerRejected
    \/ ReceiveGetPaymentStatus
    \/ GetPaymentStatusResolved
    \/ GetPaymentStatusRejected
    \/ ReceiveWebhook
    \/ WebhookBeginVerify
    \/ WebhookVerifyFailed
    \/ WebhookVerified
    \/ WebhookReceivedLogThrows
    \/ WebhookDispatch
    \/ WebhookAcknowledge
    \/ WebhookDispatchError
    \/ HealthCheck
    \/ RedeliverWebhook
    \/ Finish

Spec == Init /\ [][Next]_vars

\* handleWebhook has no await: once entered it runs to its response
FairSpec ==
    Spec /\ WF_vars(WebhookBeginVerify) /\ WF_vars(WebhookVerifyFailed)
         /\ WF_vars(WebhookVerified) /\ WF_vars(WebhookReceivedLogThrows)
         /\ WF_vars(WebhookDispatch)
         /\ WF_vars(WebhookAcknowledge) /\ WF_vars(WebhookDispatchError)

---------------------------------------------------------------------------
(* Properties *)

InWebhook == handler = "handleWebhook"

\* The delivery's signature does not verify: no usable header, a digest made
\* with another secret, over another body or for another timestamp, or a
\* timestamp older than the tolerance window
SignatureInvalid ==
    \/ req.sig.kind # "signed"
    \/ req.sig.v1[1] # WebhookSecret
    \/ req.sig.v1[2] # req.sig.t
    \/ req.sig.v1[3] # req.body
    \/ Now - req.sig.t > Tolerance

\* The digest itself is right (secret, timestamp and body) but the timestamp
\* is too old
ExpiredButSigned ==
    /\ req.sig.kind = "signed"
    /\ req.sig.v1 = <<WebhookSecret, req.sig.t, req.body>>
    /\ Now - req.sig.t > Tolerance

VerifyDecided ==
    pc \in {"rejected", "verified", "dispatching", "acknowledged", "dispatch_error",
            "uncaught"}

HasLog(level, msg) == \E i \in 1..Len(logs) : logs[i].level = level /\ logs[i].msg = msg

\* C1: when signature verification fails (tampered body, wrong secret,
\* malformed or missing header, expired timestamp under a correct digest) the
\* call ends rejected with status 400, no switch branch (the default one
\* included) runs and no acknowledgment is sent.
C1_VerificationFailureRejected ==
    (InWebhook /\ SignatureInvalid) =>
        /\ branches = <<>>
        /\ ~HasLog("log", "Unhandled event type")
        /\ ~HasLog("log", "Webhook received")
        /\ res.body.kind # "ack"
        /\ VerifyDecided =>
              /\ pc = "rejected"
              /\ res.sent = 1
              /\ res.status = 400

C1_Witness ==
    /\ InWebhook /\ pc = "rejected" /\ ExpiredButSigned
    /\ res.status = 400

ExpectedBranch(type) ==
    CASE type = "payment_intent.succeeded"       -> "payment_intent.succeeded"
      [] type = "payment_intent.payment_failed"  -> "payment_intent.payment_failed"
      [] type = "payment_intent.requires_action" -> "payment_intent.requires_action"
      [] type = "customer.created"               -> "customer.created"
      [] type = "charge.dispute.created"         -> "charge.dispute.created"
      [] OTHER                                   -> "default"

\* C2: a delivery signed with the server's secret over its own body with a
\* fresh timestamp verifies, and the switch then enters exactly one branch,
\* the one of event.type (default for any other type), with no fall-through.
C2_ValidEventDispatchedOnce ==
    (InWebhook /\ ~SignatureInvalid) =>
        /\ pc # "rejected"
        /\ pc \in {"received", "verifying", "verified"} => branches = <<>>
        /\ pc \in Terminal => pc \in {"acknowledged", "dispatch_error"}
        /\ pc \in {"dispatching", "acknowledged", "dispatch_error"} =>
              branches = <<ExpectedBranch(req.body.type)>>

\* C3: a verified event whose dispatch raised nothing is answered 200 with
\* {received: true, eventType, eventId} naming the event's own type and id;
\* an unrecognized type gets the same answer, its only effect one log line.
C3_VerifiedEventAcknowledged ==
    (InWebhook /\ pc \in Terminal /\ ~SignatureInvalid /\ exc = NoError) =>
        /\ res.sent = 1
        /\ res.status = 200
        /\ res.body.kind = "ack"
        /\ res.body.received = TRUE
        /\ res.body.eventType = req.body.type
        /\ res.body.eventId = req.body.id
        /\ req.body.type \notin HandledTypes =>
              /\ calls = <<>>
              /\ Len(logs) = 2
              /\ logs[2] = LogLine("log", "Unhandled event type", <<S(req.body.type)>>)
              /\ \A i \in 1..Len(logs) : logs[i].level # "error"

C3_Witness ==
    /\ InWebhook /\ pc = "acknowledged" /\ req.body.type = "invoice.paid"
    /\ res.status = 200 /\ res.body.eventId = "evt_2"

InCreatePaymentIntent == handler = "createPaymentIntent"

AmountMissing == req.amount.k \in {"undefined", "null"}

AmountNonPositive == req.amount.k = "number" /\ req.amount.num <= 0

\* C4: when the amount is missing or is a number <= 0, createPaymentIntent
\* answers 400 and stripe.paymentIntents.create is never called.
C4_BadAmountRejected ==
    (InCreatePaymentIntent /\ (AmountMissing \/ AmountNonPositive)) =>
        /\ pc = "done"
        /\ res.sent = 1
        /\ res.status = 400
        /\ calls = <<>>

C4_Witness ==
    /\ InCreatePaymentIntent /\ pc = "done" /\ req.amount = Num(0, 1)
    /\ res.status = 400 /\ calls = <<>>

IsPositiveInteger(v) == v.k = "number" /\ v.num > 0 /\ v.num % v.den = 0

\* C5: the processor is contacted only with a positive integer amount: every
\* amount passed to stripe.paymentIntents.create is a positive integer, and a
\* request whose amount is anything else is answered 400.
C5_OnlyPositiveIntegerForwarded ==
    InCreatePaymentIntent =>
        /\ \A i \in 1..Len(calls) : IsPositiveInteger(calls[i].amount)
        /\ (pc = "done" /\ ~IsPositiveInteger(req.amount)) => res.status = 400

InCreateCustomer == handler = "createCustomer"

\* C6: a request without an email is answered 400 with no call to
\* stripe.customers.create, and the processor is contacted only when the
\* request carries an email string.
C6_OnlyEmailStringForwarded ==
    InCreateCustomer =>
        /\ req.email.k \in {"undefined", "null"} =>
              (pc = "done" /\ res.status = 400 /\ calls = <<>>)
        /\ \A i \in 1..Len(calls) : calls[i].email.k = "string"

InGetPaymentStatus == handler = "getPaymentStatus"

HasPiPrefix(s) == Len(s) >= 3 /\ s[1] = "p" /\ s[2] = "i" /\ s[3] = "_"

\* C7: an id that does not start with 'pi_' is answered 400 with a message
\* beginning 'Invalid PaymentIntent ID' and no call to
\* stripe.paymentIntents.retrieve; only ids starting with 'pi_' are looked up.
C7_BadIdRejected ==
    InGetPaymentStatus =>
        /\ ~HasPiPrefix(req.id.s) =>
              /\ pc = "done"
              /\ res.sent = 1
              /\ res.status = 400
              /\ res.body.kind = "error"
              /\ res.body.error.k = "string"
              /\ Head(res.body.error.s) = "Invalid PaymentIntent ID"
              /\ calls = <<>>
        /\ \A i \in 1..Len(calls) : HasPiPrefix(calls[i].id.s)

C7_Witness ==
    /\ InGetPaymentStatus /\ pc = "done" /\ req.id = Str(<<"p", "i", "x">>)
    /\ res.status = 400 /\ calls = <<>>

IsClientSecret(v) == v \in ClientSecrets

\* C8: the confirmation token reaches the clientSecret field of the response
\* and nothing else: no console line of the request carries it, the line
\* logged on success is made of the id, amount, currency and status only, no
\* other response field holds it and it is in no call to the processor.
C8_ClientSecretNotLogged ==
    InCreatePaymentIntent =>
        /\ \A i \in 1..Len(logs) : \A j \in 1..Len(logs[i].args) :
              ~IsClientSecret(logs[i].args[j])
        /\ \A i \in 1..Len(calls) :
              /\ ~IsClientSecret(calls[i].amount)
              /\ ~IsClientSecret(calls[i].currency)
              /\ ~IsClientSecret(calls[i].customer)
        /\ res.body.kind = "error" => ~IsClientSecret(res.body.error)
        /\ res.body.kind = "paymentIntent" =>
              /\ IsClientSecret(res.body.clientSecret)
              /\ ~IsClientSecret(res.body.paymentIntentId)
              /\ ~IsClientSecret(res.body.amount)
              /\ ~IsClientSecret(res.body.currency)
              /\ ~IsClientSecret(res.body.status)
              /\ logs = <<LogLine("log", "PaymentIntent created",
                                  <<res.body.paymentIntentId, Div100(req.amount),
                                    Str(ToUpperCase(res.body.currency.s)),
                                    res.body.status>>)>>

C8_Witness ==
    /\ InCreatePaymentIntent /\ pc = "done" /\ res.status = 200
    /\ res.body.kind = "paymentIntent"
    /\ res.body.clientSecret = S("pi_1_secret_B")
    /\ Len(logs) = 1

ErrorResponse == pc \in Terminal /\ res.sent = 1 /\ res.status \in {400, 404, 500}

HasErrorLog == \E i \in 1..Len(logs) : logs[i].level = "error"

\* A request refused by the handler's own input check, before any call
ValidationRejection ==
    /\ handler \in {"createPaymentIntent", "createCustomer", "getPaymentStatus"}
    /\ pc = "done"
    /\ calls = <<>>

\* C9 as stated: every request that ends in an error response (400, 404 or
\* 500), input-validation rejections included, has an error log entry.
C9_EveryErrorLogged ==
    ErrorResponse => HasErrorLog

\* C9 (amended): every error response that comes from a catch block (a
\* rejected or failed processor call, a failed webhook verification, an
\* exception during webhook dispatch) has an error log entry written in that
\* request; an input-validation rejection is answered 400 with nothing
\* logged; an unrecognized webhook event type is acknowledged with no error
\* entry.
C9_CaughtErrorsLogged ==
    /\ (ErrorResponse /\ ~ValidationRejection) =>
          /\ HasErrorLog
          /\ logs[Len(logs)].level = "error"
    /\ (ErrorResponse /\ ValidationRejection) => logs = <<>>
    /\ (InWebhook /\ pc = "acknowledged") => ~HasErrorLog

C9_Witness ==
    /\ InCreateCustomer /\ pc = "done" /\ res.status = 400 /\ calls # <<>>
    /\ HasErrorLog

\* The steps the webhook state machine allows
WebhookStep(from, to) ==
    \/ from = "idle"        /\ to = "received"
    \/ from = "received"    /\ to = "verifying"
    \/ from = "verifying"   /\ to \in {"rejected", "verified"}
    \/ from = "verified"    /\ to = "dispatching"
    \/ from = "dispatching" /\ to \in {"acknowledged", "dispatch_error"}
    \/ from \in {"rejected", "acknowledged", "dispatch_error"} /\ to \in {"idle", "received"}

WebhookTerminal == pc \in {"rejected", "acknowledged", "dispatch_error"}

\* One response at the terminal states and none before; 400 exactly for a
\* failed verification, 500 exactly for an exception during dispatch, 200
\* otherwise
WebhookOutcome ==
    InWebhook =>
        /\ ~WebhookTerminal => res.sent = 0
        /\ WebhookTerminal =>
              /\ res.sent = 1
              /\ res.status \in {200, 400, 500}
              /\ (res.status = 400) <=> SignatureInvalid
              /\ (res.status = 500) <=> (~SignatureInvalid /\ exc # NoError)
              /\ (res.status = 200) <=> (~SignatureInvalid /\ exc = NoError)
              /\ (pc = "rejected") <=> (res.status = 400)
              /\ (pc = "dispatch_error") <=> (res.status = 500)
              /\ (pc = "acknowledged") <=> (res.status = 200)
              /\ SignatureInvalid => (exc = NoError /\ branches = <<>>)

\* C10: every handleWebhook call moves received -> verifying -> rejected, or
\* -> verified -> dispatching -> acknowledged or dispatch-error, reaches one
\* of the three terminal outcomes and sends exactly one response there: 400
\* iff verification failed, 500 iff verification succeeded and dispatch
\* threw, 200 otherwise.
C10_WebhookStateMachine ==
    /\ []WebhookOutcome
    /\ [][(InWebhook \/ InWebhook') => WebhookStep(pc, pc')]_vars
    /\ [][(InWebhook /\ WebhookTerminal) => res' = Fresh]_vars
    /\ (InWebhook /\ pc = "received") ~> (InWebhook /\ WebhookTerminal)

\* C11: every dispatch branch is no-throw: for a verified event, whatever
\* its type and whatever the shape of event.data.object, the matching branch
\* raises no exception, so the event is answered 200 and never 500.
C11_BranchesNoThrow ==
    (InWebhook /\ ~SignatureInvalid) =>
        /\ exc = NoError
        /\ pc # "dispatch_error"
        /\ res.status # 500
        /\ WebhookTerminal => res.status = 200

\* The call starts with nothing left over from earlier calls
StartsClean ==
    /\ res = Fresh
    /\ logs = <<>>
    /\ calls = <<>>
    /\ event = NoEvent
    /\ branches = <<>>
    /\ exc = NoError

\* C12: handleWebhook keeps no state between calls: every call starts clean,
\* a request delivered again gets the response its earlier delivery got, and a
\* verified event delivered again is dispatched again and acknowledged with
\* the identical 200 response every time, without raising.
C12_RedeliveryAcknowledgedIdentically ==
    InWebhook =>
        /\ pc = "received" => StartsClean
        /\ (prev.n > 0 /\ WebhookTerminal) => res = prev.res
        /\ (prev.n > 0 /\ ~SignatureInvalid) =>
              /\ ~prev.raised
              /\ prev.res.status = 200
              /\ prev.res.body.kind = "ack"
              /\ exc = NoError
              /\ pc \in {"dispatching", "acknowledged"} => Len(branches) = 1
              /\ WebhookTerminal => (pc = "acknowledged" /\ res.status = 200)

\* The stateless part of C12 alone: clean start and identical responses
RedeliveryDeterministic ==
    InWebhook =>
        /\ pc = "received" => StartsClean
        /\ (prev.n > 0 /\ WebhookTerminal) => res = prev.res

====
